---- MODULE Spec2Model ----
(***************************************************************************)
(* Signaling relay of Sumit189/screenplay: the Socket.IO router of         *)
(* api/socket.js (address-aware) with its room registry, the connection -> *)
(* address map and the transport groups the handlers join and emit to, and *)
(* the router of api/socket/index.js (plain) run beside it on the same     *)
(* events.                                                                 *)
(***************************************************************************)
EXTENDS Integers, Sequences, FiniteSets, TLC

\* ------------------------------------------------------------------ universe
\* Connection identities (socket.id): server assigned, never reused. The
\* server names its sockets, so the k-th socket to connect is ConnOrder[k].
ConnOrder == <<"c1", "c2", "c3">>

Conns == {ConnOrder[k] : k \in 1..Len(ConnOrder)}

\* The number of socket events the router handles in a run.
MaxEvents == 5

\* Caller-supplied room identifiers. A room id is an arbitrary string, so it may
\* equal a connection identity ("c1").
RoomIds == {"r1", "c1"}

\* Every name io.to(...) can be given: a socket's own id or a joined room id.
Names == Conns \cup RoomIds

\* Opaque negotiation payloads (offer / answer / candidate).
Payloads == {"p1"}

\* The `from` a relayed offer or answer names. The offer and answer handlers
\* only copy it into what they emit.
Froms == {"c2"}

\* ------------------------------------------------------------------ addresses
\* An address is the string the code inspects, modelled as its sequence of
\* characters.
DigitChars == <<"0", "1", "2", "3", "4", "5", "6", "7", "8", "9">>

RECURSIVE Dec(_)
Dec(n) == IF n < 10 THEN <<DigitChars[n + 1]>>
          ELSE Dec(n \div 10) \o <<DigitChars[(n % 10) + 1]>>

\* The dotted-decimal text of the address a.b.c.d
IPv4(a, b, c, d) == Dec(a) \o <<".">> \o Dec(b) \o <<".">> \o Dec(c) \o <<".">> \o Dec(d)

Localhost == <<"l", "o", "c", "a", "l", "h", "o", "s", "t">>

\* String.prototype.startsWith
StartsWith(s, p) == Len(s) >= Len(p) /\ SubSeq(s, 1, Len(p)) = p

\* String.prototype.lastIndexOf for a single character, 1-based; 0 when absent
\* (JavaScript: 0-based, -1 when absent).
LastIndexOf(s, ch) ==
    LET hits == {i \in 1..Len(s) : s[i] = ch}
    IN  IF hits = {} THEN 0 ELSE CHOOSE i \in hits : \A j \in hits : j <= i

\* ip.match(/^172\.(1[6-9]|2[0-9]|3[0-1])\./) !== null
Match172(ip) ==
    /\ Len(ip) >= 7
    /\ SubSeq(ip, 1, 4) = <<"1", "7", "2", ".">>
    /\ \/ ip[5] = "1" /\ ip[6] \in {"6", "7", "8", "9"}
       \/ ip[5] = "2" /\ ip[6] \in {"0", "1", "2", "3", "4", "5", "6", "7", "8", "9"}
       \/ ip[5] = "3" /\ ip[6] \in {"0", "1"}
    /\ ip[7] = "."

\* '127.0.0.1'
Loopback == IPv4(127, 0, 0, 1)

isLocalIP(ip) ==
    IF ip = Loopback \/ ip = Localhost THEN TRUE
    ELSE \/ StartsWith(ip, <<"1", "0", ".">>)
         \/ StartsWith(ip, <<"1", "9", "2", ".", "1", "6", "8", ".">>)
         \/ Match172(ip)

\* null is modelled as the empty string: a prefix the code returns always ends
\* with the dot it found, so it is never empty.
Null == <<>>

getLocalSubnetPrefix(ip) ==
    IF ~isLocalIP(ip) THEN Null
    ELSE LET lastDotIndex == LastIndexOf(ip, ".")
         IN  IF lastDotIndex # 0 THEN SubSeq(ip, 1, lastDotIndex) ELSE Null

areOnSameLocalNetwork(ip1, ip2) ==
    IF ~isLocalIP(ip1) \/ ~isLocalIP(ip2) THEN FALSE
    ELSE LET prefix1 == getLocalSubnetPrefix(ip1)
             prefix2 == getLocalSubnetPrefix(ip2)
         IN  prefix1 # Null /\ prefix1 = prefix2

\* The addresses sockets register: two private addresses on different subnets.
IPs == {IPv4(192, 168, 1, 10), IPv4(192, 168, 2, 20)}

\* getClientIP(req) of the request that creates the Socket.IO server
FirstIPs == {IPv4(192, 168, 1, 10)}

\* The addresses the join policy is run on: private ones of each range the code
\* names (with two on one /24), the neighbours of the 172.16-31 range, the
\* loopback address and name, a public address and an IPv6 address.
PolicyIPs ==
    {IPv4(192, 168, 1, 10), IPv4(192, 168, 1, 55), IPv4(192, 168, 2, 20),
     IPv4(10, 0, 0, 5), IPv4(172, 16, 0, 9), IPv4(172, 31, 0, 9),
     IPv4(172, 15, 0, 9), IPv4(172, 32, 0, 9), IPv4(8, 8, 8, 8),
     Loopback, Localhost, <<":", ":", "1">>}

\* ------------------------------------------------------------------ state
VARIABLES
    io,         \* res.socket.server.io is set: the Socket.IO server exists
    clientIP,   \* the clientIP the io.on('connection') closure captured
    rooms,      \* the rooms Map, as the sequence of its entries in insertion order
    clientIPs,  \* the clientIPs Map: connection -> address (Null: no entry)
    connected,  \* sockets currently connected
    closed,     \* sockets that have disconnected
    joined,     \* transport groups each socket joined with socket.join
    event,      \* the event handled by the last step
    emits,      \* the events the last step emitted, in order, with their receivers
    handled,    \* how many socket events have been handled
    plainRooms, \* the rooms Map of api/socket/index.js, in insertion order
    plainJoined,\* transport groups each socket joined at the plain router's server
    plainEmits  \* the events the plain router emitted in the last step

vars == <<io, clientIP, rooms, clientIPs, connected, closed, joined, event, emits, handled,
          plainRooms, plainJoined, plainEmits>>

NoEvent == [op |-> "none", conn |-> "", args |-> <<>>]

Init ==
    /\ io = FALSE
    /\ clientIP = Null
    /\ rooms = <<>>
    /\ clientIPs = [c \in Conns |-> Null]
    /\ connected = {}
    /\ closed = {}
    /\ joined = [c \in Conns |-> {}]
    /\ event = NoEvent
    /\ emits = <<>>
    /\ handled = 0
    /\ plainRooms = <<>>
    /\ plainJoined = [c \in Conns |-> {}]
    /\ plainEmits = <<>>

\* ------------------------------------------------------------------ registry
\* Position of room id in the Map's iteration order, 0 when absent.
RoomIndex(rs, id) ==
    IF \E i \in 1..Len(rs) : rs[i].id = id
    THEN CHOOSE i \in 1..Len(rs) : rs[i].id = id
    ELSE 0

\* rooms.get(id) is not undefined
HasRoom(rs, id) == RoomIndex(rs, id) # 0

\* rooms.get(id), for an id the Map holds
GetRoom(rs, id) == rs[RoomIndex(rs, id)]

\* rooms.set(id, room): a new key is appended, an existing key keeps its place
SetRoom(rs, room) ==
    IF HasRoom(rs, room.id)
    THEN [rs EXCEPT ![RoomIndex(rs, room.id)] = room]
    ELSE Append(rs, room)

\* ------------------------------------------------------------------ transport
\* The sockets an io.to(name).emit reaches: the connected sockets that are in
\* the group `name`, which are the socket whose id is `name` and the sockets
\* that joined `name`.
Members(conn, jn, name) == {c \in conn : c = name \/ name \in jn[c]}

\* socket.emit(ev, args): to the socket c itself
ToSocket(ev, args, c) == [event |-> ev, args |-> args, group |-> "", to |-> {c}]

\* io.to(name).emit(ev, args): to the members of the group `name`
ToGroup(ev, args, name, conn, jn) ==
    [event |-> ev, args |-> args, group |-> name, to |-> Members(conn, jn, name)]

\* ------------------------------------------------------------------ handlers
Handled(op, c, args) == [op |-> op, conn |-> c, args |-> args]

\* One more socket event is handled.
Count == handled < MaxEvents /\ handled' = handled + 1

\* module.exports, first non-GET request: the Socket.IO server is created and
\* the connection handler closes over this request's clientIP. Later requests
\* find res.socket.server.io set and change nothing.
InitServer(ip) ==
    /\ ~io
    /\ io' = TRUE
    /\ clientIP' = ip
    /\ event' = Handled("init", "", <<>>)
    /\ emits' = <<>>
    /\ UNCHANGED <<rooms, clientIPs, connected, closed, joined, handled>>

\* io.on('connection'): a new socket, whose client connects from the address ip
\* (the getClientIP of that client's own request). The handler is the closure
\* of the request that created the server: the address entry it stores is the
\* clientIP that closure captured.
Connect(c, ip) ==
    /\ io
    /\ c \notin connected \cup closed
    /\ c = ConnOrder[Cardinality(connected \cup closed) + 1]
    /\ connected' = connected \cup {c}
    /\ clientIPs' = [clientIPs EXCEPT ![c] = clientIP]
    /\ event' = Handled("connection", c, <<ip>>)
    /\ emits' = <<>>
    /\ UNCHANGED <<io, clientIP, rooms, closed, joined, handled>>

\* socket.on('registerIP')
RegisterIP(c, ip) ==
    /\ c \in connected
    /\ Count
    /\ clientIPs' = [clientIPs EXCEPT ![c] = ip]
    /\ event' = Handled("registerIP", c, <<>>)
    /\ emits' = <<>>
    /\ UNCHANGED <<io, clientIP, rooms, connected, closed, joined>>

\* An entry whose creator is entered as its first viewer: viewers: new
\* Set([socket.id])
NewRoomHostViews(roomId, c, ips) ==
    [id |-> roomId, host |-> c, hostIP |-> ips[c], viewers |-> {c},
     isSharing |-> FALSE]

\* The entry createRoom stores
NewRoom(roomId, c, ips) ==
    [id |-> roomId, host |-> c, hostIP |-> ips[c], viewers |-> {},
     isSharing |-> FALSE]

\* socket.on('createRoom')
CreateRoom(c, roomId) ==
    /\ c \in connected
    /\ Count
    /\ rooms' = SetRoom(rooms, NewRoom(roomId, c, clientIPs))
    /\ joined' = [joined EXCEPT ![c] = @ \cup {roomId}]
    /\ event' = Handled("createRoom", c, <<roomId>>)
    /\ emits' = <<ToSocket("roomCreated", <<roomId>>, c)>>
    /\ UNCHANGED <<io, clientIP, clientIPs, connected, closed>>

\* The join policy of joinRoom: TRUE when the join is refused
NetworkRestricted(hostIP, viewerIP) ==
    LET sameNetwork == areOnSameLocalNetwork(hostIP, viewerIP)
    IN  ~sameNetwork /\ isLocalIP(hostIP) /\ isLocalIP(viewerIP)

\* A join that also takes the room over: room.host = socket.id
AddViewerAsHost(room, c) == [room EXCEPT !.viewers = @ \cup {c}, !.host = c]

\* room.viewers.add(socket.id)
AddViewer(room, c) == [room EXCEPT !.viewers = @ \cup {c}]

NotFoundMessage == "Room not found"

RestrictedMessage == "You can only join rooms from the same local network"

\* socket.join(roomId) placed before the lookup: the socket is in the group of a
\* room that does not exist
JoinNotFoundJoinsGroup(rs, c, roomId) ==
    [rooms |-> rs, joins |-> {roomId},
     emits |-> <<ToSocket("error", <<NotFoundMessage>>, c)>>]

\* joinRoom, the room is not in the Map: what the handler leaves in the Map,
\* the groups the socket joins and what is emitted
JoinNotFound(rs, c, roomId) ==
    [rooms |-> rs, joins |-> {}, emits |-> <<ToSocket("error", <<NotFoundMessage>>, c)>>]

\* joinRoom, the join policy refuses
JoinRestricted(rs, c, roomId) ==
    [rooms |-> rs, joins |-> {}, emits |-> <<ToSocket("error", <<RestrictedMessage>>, c)>>]

\* An accepted join in which the first joiner of a room without viewers takes
\* the room over: room.host = socket.id
JoinAcceptedTakesOver(rs, c, roomId) ==
    LET room == GetRoom(rs, roomId)
        taken == IF room.viewers = {} THEN [room EXCEPT !.host = c] ELSE room
    IN  [rooms |-> SetRoom(rs, AddViewer(taken, c)),
         joins |-> {roomId},
         emits |-> <<ToSocket("roomJoined", <<roomId>>, c)>>
                   \o (IF room.isSharing
                       THEN <<ToSocket("hostIsSharing", <<roomId>>, c)>>
                       ELSE <<>>)]

\* The accepted join without the room.isSharing notice
JoinAcceptedQuiet(rs, c, roomId) ==
    [rooms |-> SetRoom(rs, AddViewer(GetRoom(rs, roomId), c)),
     joins |-> {roomId},
     emits |-> <<ToSocket("roomJoined", <<roomId>>, c)>>]

\* joinRoom, the join is accepted
JoinAccepted(rs, c, roomId) ==
    LET room == GetRoom(rs, roomId)
    IN  [rooms |-> SetRoom(rs, AddViewer(room, c)),
         joins |-> {roomId},
         emits |-> <<ToSocket("roomJoined", <<roomId>>, c)>>
                   \o (IF room.isSharing
                       THEN <<ToSocket("hostIsSharing", <<roomId>>, c)>>
                       ELSE <<>>)]

\* The body of the joinRoom handler for socket c
JoinOutcome(rs, ips, c, roomId) ==
    IF HasRoom(rs, roomId)
    THEN LET room == GetRoom(rs, roomId)
             viewerIP == ips[c]
             hostIP == ips[room.host]
         IN  IF NetworkRestricted(hostIP, viewerIP)
             THEN JoinRestricted(rs, c, roomId)
             ELSE JoinAccepted(rs, c, roomId)
    ELSE JoinNotFound(rs, c, roomId)

\* socket.on('joinRoom')
JoinRoom(c, roomId) ==
    /\ c \in connected
    /\ Count
    /\ LET out == JoinOutcome(rooms, clientIPs, c, roomId)
       IN  /\ rooms' = out.rooms
           /\ joined' = [joined EXCEPT ![c] = @ \cup out.joins]
           /\ emits' = out.emits
    /\ event' = Handled("joinRoom", c, <<roomId>>)
    /\ UNCHANGED <<io, clientIP, clientIPs, connected, closed>>

\* socket.on('viewerJoined'). room.host is a socket id, never falsy.
ViewerJoined(c, roomId) ==
    /\ c \in connected
    /\ Count
    /\ event' = Handled("viewerJoined", c, <<roomId>>)
    /\ emits' = IF HasRoom(rooms, roomId)
                THEN <<ToGroup("newViewer", <<c>>, GetRoom(rooms, roomId).host,
                               connected, joined)>>
                ELSE <<>>
    /\ UNCHANGED <<io, clientIP, rooms, clientIPs, connected, closed, joined>>

\* The flag written to every entry of the Map instead of the one named
SetSharingAll(rs, roomId, value) ==
    IF HasRoom(rs, roomId)
    THEN [i \in 1..Len(rs) |-> [rs[i] EXCEPT !.isSharing = value]]
    ELSE rs

\* room.isSharing = value, when the room is in the Map
SetSharing(rs, roomId, value) ==
    IF HasRoom(rs, roomId)
    THEN [rs EXCEPT ![RoomIndex(rs, roomId)].isSharing = value]
    ELSE rs

\* socket.on('startScreenShare'). The handler does not read socket.id: the
\* event may come from any connected socket.
StartScreenShare(roomId) ==
    /\ connected # {}
    /\ Count
    /\ event' = Handled("startScreenShare", "", <<roomId>>)
    /\ rooms' = SetSharing(rooms, roomId, TRUE)
    /\ emits' = <<>>
    /\ UNCHANGED <<io, clientIP, clientIPs, connected, closed, joined>>

\* socket.on('stopScreenShare'), from any connected socket
StopScreenShare(roomId) ==
    /\ connected # {}
    /\ Count
    /\ event' = Handled("stopScreenShare", "", <<roomId>>)
    /\ rooms' = SetSharing(rooms, roomId, FALSE)
    /\ emits' = IF HasRoom(rooms, roomId)
                THEN <<ToGroup("hostStoppedSharing", <<>>, roomId, connected, joined)>>
                ELSE <<>>
    /\ UNCHANGED <<io, clientIP, clientIPs, connected, closed, joined>>

\* socket.on('offer'), from any connected socket
Offer(to, from, offer) ==
    /\ connected # {}
    /\ Count
    /\ event' = Handled("offer", "", <<to, from, offer>>)
    /\ emits' = <<ToGroup("offer", <<from, offer>>, to, connected, joined)>>
    /\ UNCHANGED <<io, clientIP, rooms, clientIPs, connected, closed, joined>>

\* socket.on('answer'), from any connected socket
Answer(to, from, answer) ==
    /\ connected # {}
    /\ Count
    /\ event' = Handled("answer", "", <<to, from, answer>>)
    /\ emits' = <<ToGroup("answer", <<from, answer>>, to, connected, joined)>>
    /\ UNCHANGED <<io, clientIP, rooms, clientIPs, connected, closed, joined>>

\* let hostId = null: no host found. if (hostId) is false for it, as it is for
\* the empty string that stands for it here.
NoHost == ""

\* The scan of iceCandidate for to === 'host': the host of the first room, in
\* the Map's iteration order, whose viewers hold `from`; NoHost when there is none.
FindHost(rs, from) ==
    LET hits == {i \in 1..Len(rs) : from \in rs[i].viewers}
    IN  IF hits = {} THEN NoHost
        ELSE rs[CHOOSE i \in hits : \A j \in hits : i <= j].host

\* What the iceCandidate handler emits
IceEmits(rs, conn, jn, to, from, candidate) ==
    IF to = "host"
    THEN LET hostId == FindHost(rs, from)
         IN  IF hostId # NoHost
             THEN <<ToGroup("iceCandidate", <<from, candidate>>, hostId, conn, jn)>>
             ELSE <<>>
    ELSE <<ToGroup("iceCandidate", <<from, candidate>>, to, conn, jn)>>

\* socket.on('iceCandidate'), from any connected socket
IceCandidate(to, from, candidate) ==
    /\ connected # {}
    /\ Count
    /\ event' = Handled("iceCandidate", "", <<to, from, candidate>>)
    /\ emits' = IceEmits(rooms, connected, joined, to, from, candidate)
    /\ UNCHANGED <<io, clientIP, rooms, clientIPs, connected, closed, joined>>

\* The sweep without rooms.delete(roomId): the viewers are notified and the
\* room of the disconnected host stays in the Map
SweepRoomKeepsRoom(room, c, conn, jn) ==
    IF room.host = c
    THEN [rooms |-> <<room>>,
          emits |-> <<ToGroup("hostDisconnected", <<>>, room.id, conn, jn)>>]
    ELSE IF c \in room.viewers
    THEN [rooms |-> <<[room EXCEPT !.viewers = @ \ {c}]>>,
          emits |-> <<ToGroup("viewerLeft", <<c>>, room.host, conn, jn)>>]
    ELSE [rooms |-> <<room>>, emits |-> <<>>]

\* The sweep without room.viewers.delete(socket.id): the host is notified and
\* the viewer stays in the set
SweepRoomKeepsViewer(room, c, conn, jn) ==
    IF room.host = c
    THEN [rooms |-> <<>>,
          emits |-> <<ToGroup("hostDisconnected", <<>>, room.id, conn, jn)>>]
    ELSE IF c \in room.viewers
    THEN [rooms |-> <<room>>,
          emits |-> <<ToGroup("viewerLeft", <<c>>, room.host, conn, jn)>>]
    ELSE [rooms |-> <<room>>, emits |-> <<>>]

\* One iteration of the rooms.forEach of the disconnect handler, for the entry
\* `room`: the entries it leaves in the Map (none or one) and what it emits.
SweepRoom(room, c, conn, jn) ==
    IF room.host = c
    THEN [rooms |-> <<>>,
          emits |-> <<ToGroup("hostDisconnected", <<>>, room.id, conn, jn)>>]
    ELSE IF c \in room.viewers
    THEN [rooms |-> <<[room EXCEPT !.viewers = @ \ {c}]>>,
          emits |-> <<ToGroup("viewerLeft", <<c>>, room.host, conn, jn)>>]
    ELSE [rooms |-> <<room>>, emits |-> <<>>]

\* rooms.forEach((room, roomId) => ...) of the disconnect handler for socket c,
\* over the entries rs in iteration order.
RECURSIVE Sweep(_, _, _, _)
Sweep(rs, c, conn, jn) ==
    IF rs = <<>> THEN [rooms |-> <<>>, emits |-> <<>>]
    ELSE LET first == SweepRoom(Head(rs), c, conn, jn)
             rest == Sweep(Tail(rs), c, conn, jn)
         IN  [rooms |-> first.rooms \o rest.rooms, emits |-> first.emits \o rest.emits]

\* The disconnect handler without clientIPs.delete(socket.id)
DisconnectKeepsAddress(c) ==
    /\ c \in connected
    /\ Count
    /\ connected' = connected \ {c}
    /\ closed' = closed \cup {c}
    /\ joined' = [joined EXCEPT ![c] = {}]
    /\ LET swept == Sweep(rooms, c, connected', joined')
       IN  /\ rooms' = swept.rooms
           /\ emits' = swept.emits
    /\ event' = Handled("disconnect", c, <<>>)
    /\ UNCHANGED <<io, clientIP, clientIPs>>

\* socket.on('disconnect'). Socket.IO takes the socket out of every group
\* (its own id included) before it runs the handler.
Disconnect(c) ==
    /\ c \in connected
    /\ Count
    /\ connected' = connected \ {c}
    /\ closed' = closed \cup {c}
    /\ joined' = [joined EXCEPT ![c] = {}]
    /\ LET swept == Sweep(rooms, c, connected', joined')
       IN  /\ rooms' = swept.rooms
           /\ emits' = swept.emits
    /\ clientIPs' = [clientIPs EXCEPT ![c] = Null]
    /\ event' = Handled("disconnect", c, <<>>)
    /\ UNCHANGED <<io, clientIP>>

\* A duplicate disconnect signal: the disconnect handler runs again for a
\* socket that has already disconnected.
DuplicateDisconnect(c) ==
    /\ c \in closed
    /\ Count
    /\ LET swept == Sweep(rooms, c, connected, joined)
       IN  /\ rooms' = swept.rooms
           /\ emits' = swept.emits
    /\ clientIPs' = [clientIPs EXCEPT ![c] = Null]
    /\ event' = Handled("disconnect", c, <<"duplicate">>)
    /\ UNCHANGED <<io, clientIP, connected, closed, joined>>

\* ------------------------------------------------------------------ plain router
\* The router of api/socket/index.js. It keeps a rooms Map of its own and no
\* addresses; its server has its own transport groups. The same sockets connect
\* to both servers.

\* The entry createRoom stores
PlainNewRoom(roomId, c) ==
    [id |-> roomId, host |-> c, viewers |-> {}, isSharing |-> FALSE]

\* socket.on('createRoom')
PlainCreateRoom(c, roomId) ==
    /\ plainRooms' = SetRoom(plainRooms, PlainNewRoom(roomId, c))
    /\ plainJoined' = [plainJoined EXCEPT ![c] = @ \cup {roomId}]
    /\ plainEmits' = <<ToSocket("roomCreated", <<roomId>>, c)>>

\* A joinRoom handler that does not enter a room's own host into its viewer
\* set: if (room.host !== socket.id) room.viewers.add(socket.id)
PlainJoinOutcomeHostStays(rs, c, roomId) ==
    IF HasRoom(rs, roomId)
    THEN LET room == GetRoom(rs, roomId)
             viewers == IF room.host = c THEN room.viewers ELSE room.viewers \cup {c}
         IN  [rooms |-> SetRoom(rs, [room EXCEPT !.viewers = viewers]),
              joins |-> {roomId},
              emits |-> <<ToSocket("roomJoined", <<roomId>>, c)>>
                        \o (IF room.isSharing
                            THEN <<ToSocket("hostIsSharing", <<roomId>>, c)>>
                            ELSE <<>>)]
    ELSE [rooms |-> rs, joins |-> {},
          emits |-> <<ToSocket("error", <<"Room not found">>, c)>>]

\* The body of the joinRoom handler for socket c: what it leaves in the Map,
\* the groups the socket joins and what is emitted
PlainJoinOutcome(rs, c, roomId) ==
    IF HasRoom(rs, roomId)
    THEN LET room == GetRoom(rs, roomId)
         IN  [rooms |-> SetRoom(rs, [room EXCEPT !.viewers = @ \cup {c}]),
              joins |-> {roomId},
              emits |-> <<ToSocket("roomJoined", <<roomId>>, c)>>
                        \o (IF room.isSharing
                            THEN <<ToSocket("hostIsSharing", <<roomId>>, c)>>
                            ELSE <<>>)]
    ELSE [rooms |-> rs, joins |-> {},
          emits |-> <<ToSocket("error", <<"Room not found">>, c)>>]

\* socket.on('joinRoom')
PlainJoinRoom(c, roomId) ==
    LET out == PlainJoinOutcome(plainRooms, c, roomId)
    IN  /\ plainRooms' = out.rooms
        /\ plainJoined' = [plainJoined EXCEPT ![c] = @ \cup out.joins]
        /\ plainEmits' = out.emits

\* socket.on('viewerJoined')
PlainViewerJoined(c, roomId) ==
    /\ plainEmits' = IF HasRoom(plainRooms, roomId)
                     THEN <<ToGroup("newViewer", <<c>>, GetRoom(plainRooms, roomId).host,
                                    connected, plainJoined)>>
                     ELSE <<>>
    /\ UNCHANGED <<plainRooms, plainJoined>>

\* room.isSharing = value, when the room is in the Map
PlainSetSharing(rs, roomId, value) ==
    IF HasRoom(rs, roomId)
    THEN [rs EXCEPT ![RoomIndex(rs, roomId)].isSharing = value]
    ELSE rs

\* socket.on('startScreenShare')
PlainStartScreenShare(roomId) ==
    /\ plainRooms' = PlainSetSharing(plainRooms, roomId, TRUE)
    /\ plainEmits' = <<>>
    /\ UNCHANGED plainJoined

\* socket.on('stopScreenShare')
PlainStopScreenShare(roomId) ==
    /\ plainRooms' = PlainSetSharing(plainRooms, roomId, FALSE)
    /\ plainEmits' = IF HasRoom(plainRooms, roomId)
                     THEN <<ToGroup("hostStoppedSharing", <<>>, roomId, connected,
                                    plainJoined)>>
                     ELSE <<>>
    /\ UNCHANGED plainJoined

\* socket.on('offer')
PlainOffer(to, from, offer) ==
    /\ plainEmits' = <<ToGroup("offer", <<from, offer>>, to, connected, plainJoined)>>
    /\ UNCHANGED <<plainRooms, plainJoined>>

\* socket.on('answer')
PlainAnswer(to, from, answer) ==
    /\ plainEmits' = <<ToGroup("answer", <<from, answer>>, to, connected, plainJoined)>>
    /\ UNCHANGED <<plainRooms, plainJoined>>

\* The scan of iceCandidate for to === 'host'
PlainFindHost(rs, from) ==
    LET hits == {i \in 1..Len(rs) : from \in rs[i].viewers}
    IN  IF hits = {} THEN NoHost
        ELSE rs[CHOOSE i \in hits : \A j \in hits : i <= j].host

\* socket.on('iceCandidate')
PlainIceCandidate(to, from, candidate) ==
    /\ plainEmits' =
          IF to = "host"
          THEN LET hostId == PlainFindHost(plainRooms, from)
               IN  IF hostId # NoHost
                   THEN <<ToGroup("iceCandidate", <<from, candidate>>, hostId,
                                  connected, plainJoined)>>
                   ELSE <<>>
          ELSE <<ToGroup("iceCandidate", <<from, candidate>>, to, connected, plainJoined)>>
    /\ UNCHANGED <<plainRooms, plainJoined>>

\* One iteration of the rooms.forEach of the disconnect handler
PlainSweepRoom(room, c, conn, jn) ==
    IF room.host = c
    THEN [rooms |-> <<>>,
          emits |-> <<ToGroup("hostDisconnected", <<>>, room.id, conn, jn)>>]
    ELSE IF c \in room.viewers
    THEN [rooms |-> <<[room EXCEPT !.viewers = @ \ {c}]>>,
          emits |-> <<ToGroup("viewerLeft", <<c>>, room.host, conn, jn)>>]
    ELSE [rooms |-> <<room>>, emits |-> <<>>]

\* rooms.forEach((room, roomId) => ...) of the disconnect handler for socket c
RECURSIVE PlainSweep(_, _, _, _)
PlainSweep(rs, c, conn, jn) ==
    IF rs = <<>> THEN [rooms |-> <<>>, emits |-> <<>>]
    ELSE LET first == PlainSweepRoom(Head(rs), c, conn, jn)
             rest == PlainSweep(Tail(rs), c, conn, jn)
         IN  [rooms |-> first.rooms \o rest.rooms, emits |-> first.emits \o rest.emits]

\* socket.on('disconnect'): the socket is out of every group of the plain
\* router's server, too, before the handler runs.
PlainDisconnect(c) ==
    /\ plainJoined' = [plainJoined EXCEPT ![c] = {}]
    /\ LET swept == PlainSweep(plainRooms, c, connected \ {c}, plainJoined')
       IN  /\ plainRooms' = swept.rooms
           /\ plainEmits' = swept.emits

\* ioHandler creating the server, a connection (the handler only logs), and an
\* event the plain router registers no handler for (registerIP): nothing is
\* emitted and nothing changes.
PlainQuiet ==
    /\ plainEmits' = <<>>
    /\ UNCHANGED <<plainRooms, plainJoined>>

\* The plain router is not deployed.
PlainIdle == UNCHANGED <<plainRooms, plainJoined, plainEmits>>

Next ==
    \/ \E ip \in FirstIPs : InitServer(ip) /\ PlainIdle
    \/ \E c \in Conns, ip \in IPs : Connect(c, ip) /\ PlainIdle
    \/ \E c \in Conns, ip \in IPs : RegisterIP(c, ip) /\ PlainIdle
    \/ \E c \in Conns, r \in RoomIds : CreateRoom(c, r) /\ PlainIdle
    \/ \E c \in Conns, r \in RoomIds : JoinRoom(c, r) /\ PlainIdle
    \/ \E c \in Conns, r \in RoomIds : ViewerJoined(c, r) /\ PlainIdle
    \/ \E r \in RoomIds : StartScreenShare(r) /\ PlainIdle
    \/ \E r \in RoomIds : StopScreenShare(r) /\ PlainIdle
    \/ \E to \in Names, from \in Froms, p \in Payloads : Offer(to, from, p) /\ PlainIdle
    \/ \E to \in Names, from \in Froms, p \in Payloads : Answer(to, from, p) /\ PlainIdle
    \/ \E to \in Names \cup {"host"}, from \in Conns, p \in Payloads :
          IceCandidate(to, from, p) /\ PlainIdle
    \/ \E c \in Conns : Disconnect(c) /\ PlainIdle
    \/ \E c \in Conns : DuplicateDisconnect(c) /\ PlainIdle

Spec == Init /\ [][Next]_vars

\* The join policy on its own: the first socket hosts room r1 from the address
\* the server captured, the second registers an address and joins.
NextPolicy ==
    \/ \E ip \in PolicyIPs : InitServer(ip) /\ PlainIdle
    \/ \E c \in Conns, ip \in IPs : Connect(c, ip) /\ PlainIdle
    \/ \E ip \in PolicyIPs : RegisterIP("c2", ip) /\ PlainIdle
    \/ CreateRoom("c1", "r1") /\ PlainIdle
    \/ JoinRoom("c2", "r1") /\ PlainIdle

SpecPolicy == Init /\ [][NextPolicy]_vars

\* The addresses a socket registers in the runs of both routers: a private
\* address on another subnet than the captured clientIP, and a public address.
PairIPs == {IPv4(192, 168, 2, 20), IPv4(8, 8, 8, 8)}

\* The `to` of the relayed events in the runs of both routers: the name that
\* is both a socket's identity and a room id.
PairNames == Conns \cap RoomIds

\* The join policy refuses joinRoom(roomId) from socket c.
Rejects(c, roomId) ==
    /\ HasRoom(rooms, roomId)
    /\ NetworkRestricted(clientIPs[GetRoom(rooms, roomId).host], clientIPs[c])

\* Both routers handle the same events, for the sequences of events in which
\* the join policy refuses no join. The first and third socket keep the address
\* recorded at connection, the second registers one.
NextPair ==
    \/ \E ip \in FirstIPs : InitServer(ip) /\ PlainQuiet
    \/ \E c \in Conns, ip \in FirstIPs : Connect(c, ip) /\ PlainQuiet
    \/ \E ip \in PairIPs : RegisterIP("c2", ip) /\ PlainQuiet
    \/ \E c \in Conns, r \in RoomIds : CreateRoom(c, r) /\ PlainCreateRoom(c, r)
    \/ \E c \in Conns, r \in RoomIds :
          ~Rejects(c, r) /\ JoinRoom(c, r) /\ PlainJoinRoom(c, r)
    \/ \E c \in Conns, r \in RoomIds : ViewerJoined(c, r) /\ PlainViewerJoined(c, r)
    \/ \E r \in RoomIds : StartScreenShare(r) /\ PlainStartScreenShare(r)
    \/ \E r \in RoomIds : StopScreenShare(r) /\ PlainStopScreenShare(r)
    \/ \E to \in PairNames, from \in Froms, p \in Payloads :
          Offer(to, from, p) /\ PlainOffer(to, from, p)
    \/ \E to \in PairNames, from \in Froms, p \in Payloads :
          Answer(to, from, p) /\ PlainAnswer(to, from, p)
    \/ \E to \in PairNames \cup {"host"}, from \in Conns, p \in Payloads :
          IceCandidate(to, from, p) /\ PlainIceCandidate(to, from, p)
    \/ \E c \in Conns : Disconnect(c) /\ PlainDisconnect(c)

SpecPair == Init /\ [][NextPair]_vars

\* ------------------------------------------------------------------ properties
\* The step handles the first disconnect of socket c.
DisconnectStep(c) == event' = [op |-> "disconnect", conn |-> c, args |-> <<>>]

\* The step handles joinRoom(roomId) from socket c.
JoinStep(c, roomId) == event' = [op |-> "joinRoom", conn |-> c, args |-> <<roomId>>]

\* The positions in the emissions es of the events named ev.
Emitted(es, ev) == {k \in 1..Len(es) : es[k].event = ev}

\* C1: when the host of room R disconnects, R is afterwards absent from the
\* registry, exactly one hostDisconnected is emitted for R, and it reaches every
\* connection that was in R's viewer set.
C1_HostDisconnect ==
    [][\A i \in 1..Len(rooms) :
          DisconnectStep(rooms[i].host) =>
             LET notices == {k \in Emitted(emits', "hostDisconnected") :
                                emits'[k].group = rooms[i].id}
             IN  /\ ~HasRoom(rooms', rooms[i].id)
                 /\ Cardinality(notices) = 1
                 /\ \A k \in notices : rooms[i].viewers \subseteq emits'[k].to]_vars

\* C1 for the viewers other than the host itself: with the host left out of the
\* receivers owed, the host's disconnect deletes R and emits one hostDisconnected
\* for R that reaches every viewer.
C1_HostDisconnectOtherViewers ==
    [][\A i \in 1..Len(rooms) :
          DisconnectStep(rooms[i].host) =>
             LET notices == {k \in Emitted(emits', "hostDisconnected") :
                                emits'[k].group = rooms[i].id}
             IN  /\ ~HasRoom(rooms', rooms[i].id)
                 /\ Cardinality(notices) = 1
                 /\ \A k \in notices :
                       rooms[i].viewers \ {rooms[i].host} \subseteq emits'[k].to]_vars

\* C2: iceCandidate({to: "host", from: V}) handled while V is a viewer of room R
\* makes exactly one delivery, and R's host receives it; when V is a viewer of
\* no room nothing is emitted; the registry is unchanged.
C2_IceToHost ==
    [][\A V \in Conns, p \in Payloads :
          event' = [op |-> "iceCandidate", conn |-> "", args |-> <<"host", V, p>>] =>
             /\ \A i \in 1..Len(rooms) :
                   V \in rooms[i].viewers =>
                      /\ Len(emits') = 1
                      /\ emits'[1].event = "iceCandidate"
                      /\ emits'[1].args = <<V, p>>
                      /\ rooms[i].host \in emits'[1].to
             /\ (\A i \in 1..Len(rooms) : V \notin rooms[i].viewers) => emits' = <<>>
             /\ rooms' = rooms]_vars

\* C2 for a V that is a viewer of one room only: the single delivery reaches
\* that room's host.
C2_IceToHostOneRoom ==
    [][\A V \in Conns, p \in Payloads :
          event' = [op |-> "iceCandidate", conn |-> "", args |-> <<"host", V, p>>] =>
             \A i \in 1..Len(rooms) :
                (/\ V \in rooms[i].viewers
                 /\ \A j \in 1..Len(rooms) : V \in rooms[j].viewers => j = i) =>
                   /\ Len(emits') = 1
                   /\ emits'[1].event = "iceCandidate"
                   /\ emits'[1].args = <<V, p>>
                   /\ rooms[i].host \in emits'[1].to
                   /\ rooms' = rooms]_vars

\* C3: in every reachable state no room's viewer set holds the room's own host.
C3_HostNotViewer == \A i \in 1..Len(rooms) : rooms[i].host \notin rooms[i].viewers

\* C4: joinRoom(R) for an R that is not in the registry emits error("Room not
\* found") to the joiner alone, emits nothing else, and leaves the registry, the
\* address map and every socket's groups as they were; R is not created.
C4_JoinMissingRoom ==
    [][\A c \in Conns, r \in RoomIds :
          (JoinStep(c, r) /\ ~HasRoom(rooms, r)) =>
             /\ emits' = <<[event |-> "error", args |-> <<"Room not found">>,
                            group |-> "", to |-> {c}]>>
             /\ rooms' = rooms
             /\ ~HasRoom(rooms', r)
             /\ joined' = joined
             /\ clientIPs' = clientIPs]_vars

\* A join of a missing room has been answered while another room exists.
C4_Witness ==
    /\ event.op = "joinRoom"
    /\ ~HasRoom(rooms, event.args[1])
    /\ rooms # <<>>
    /\ Emitted(emits, "error") # {}

\* C5 as stated, for the join handled right after startScreenShare(R) on an
\* existing room R: a connection new to R that sends joinRoom(R) is sent both
\* roomJoined(R) and hostIsSharing({R}).
C5_JoinAfterStart ==
    [][\A c \in Conns, r \in RoomIds :
          (/\ event = [op |-> "startScreenShare", conn |-> "", args |-> <<r>>]
           /\ HasRoom(rooms, r)
           /\ c # GetRoom(rooms, r).host
           /\ c \notin GetRoom(rooms, r).viewers
           /\ JoinStep(c, r)) =>
             /\ \E k \in Emitted(emits', "roomJoined") :
                   emits'[k].args = <<r>> /\ emits'[k].to = {c}
             /\ \E k \in Emitted(emits', "hostIsSharing") :
                   emits'[k].args = <<r>> /\ emits'[k].to = {c}]_vars

\* C5, amended: startScreenShare(R) on an existing room sets R.isSharing; R
\* stays in the registry with isSharing set across every step but a
\* stopScreenShare(R), a createRoom(R) and a disconnect of R's host; and a
\* joinRoom(R) handled while R is in the registry with isSharing set, which the
\* join policy does not refuse, emits roomJoined(R) and then hostIsSharing({R}),
\* both to the joiner alone.
C5_LateJoiner ==
    [][/\ \A r \in RoomIds :
             (event' = [op |-> "startScreenShare", conn |-> "", args |-> <<r>>]
              /\ HasRoom(rooms, r)) =>
                HasRoom(rooms', r) /\ GetRoom(rooms', r).isSharing
       /\ \A r \in RoomIds :
             (/\ HasRoom(rooms, r)
              /\ GetRoom(rooms, r).isSharing
              /\ event' # [op |-> "stopScreenShare", conn |-> "", args |-> <<r>>]
              /\ ~(event'.op = "createRoom" /\ event'.args = <<r>>)
              /\ ~(event'.op = "disconnect" /\ event'.conn = GetRoom(rooms, r).host)) =>
                HasRoom(rooms', r) /\ GetRoom(rooms', r).isSharing
       /\ \A c \in Conns, r \in RoomIds :
             (/\ JoinStep(c, r)
              /\ HasRoom(rooms, r)
              /\ GetRoom(rooms, r).isSharing
              /\ ~NetworkRestricted(clientIPs[GetRoom(rooms, r).host], clientIPs[c])) =>
                emits' = <<[event |-> "roomJoined", args |-> <<r>>, group |-> "", to |-> {c}],
                           [event |-> "hostIsSharing", args |-> <<r>>, group |-> "", to |-> {c}]>>]_vars

\* A late joiner has been told that the host is sharing.
C5_Witness ==
    /\ event.op = "joinRoom"
    /\ Emitted(emits, "hostIsSharing") # {}
    /\ HasRoom(rooms, event.args[1])
    /\ GetRoom(rooms, event.args[1]).isSharing
    /\ event.conn \in GetRoom(rooms, event.args[1]).viewers

\* The parts of an address between its dots.
RECURSIVE Parts(_)
Parts(s) ==
    LET dots == {i \in 1..Len(s) : s[i] = "."}
    IN  IF dots = {} THEN <<s>>
        ELSE LET d == CHOOSE i \in dots : \A j \in dots : i <= j
             IN  <<SubSeq(s, 1, d - 1)>> \o Parts(SubSeq(s, d + 1, Len(s)))

\* The value of a decimal numeral.
RECURSIVE Number(_)
Number(s) ==
    IF s = <<>> THEN 0
    ELSE 10 * Number(SubSeq(s, 1, Len(s) - 1))
         + (CHOOSE d \in 0..9 : DigitChars[d + 1] = s[Len(s)])

IsNumeral(s) == s # <<>> /\ \A i \in 1..Len(s) : \E d \in 1..10 : DigitChars[d] = s[i]

\* The first three dotted-decimal octets of an address (all its parts when it
\* has fewer).
FirstThreeOctets(ip) ==
    LET parts == Parts(ip) IN SubSeq(parts, 1, IF Len(parts) < 3 THEN Len(parts) ELSE 3)

\* A private or local address: 10/8, 172.16/12, 192.168/16, the loopback
\* address 127.0.0.1 and the name localhost.
PrivateAddress(ip) ==
    \/ ip = <<"1", "2", "7", ".", "0", ".", "0", ".", "1">>
    \/ ip = <<"l", "o", "c", "a", "l", "h", "o", "s", "t">>
    \/ LET parts == Parts(ip)
       IN  /\ Len(parts) = 4
           /\ \A i \in 1..4 : IsNumeral(parts[i])
           /\ \/ Number(parts[1]) = 10
              \/ Number(parts[1]) = 192 /\ Number(parts[2]) = 168
              \/ Number(parts[1]) = 172 /\ Number(parts[2]) \in 16..31

\* C6: joinRoom on an existing room is refused with the local-network error, the
\* viewer set unchanged, if and only if the host's and the viewer's addresses
\* are both private/local and their first three octets differ; otherwise the
\* join is accepted and the viewer added.
C6_JoinPolicy ==
    [][\A c \in Conns, r \in RoomIds :
          (JoinStep(c, r) /\ HasRoom(rooms, r)) =>
             LET room == GetRoom(rooms, r)
                 h == clientIPs[room.host]
                 v == clientIPs[c]
             IN  IF /\ PrivateAddress(h)
                    /\ PrivateAddress(v)
                    /\ FirstThreeOctets(h) # FirstThreeOctets(v)
                 THEN /\ emits' = <<[event |-> "error",
                                     args |-> <<"You can only join rooms from the same local network">>,
                                     group |-> "", to |-> {c}]>>
                      /\ rooms' = rooms
                 ELSE /\ HasRoom(rooms', r)
                      /\ GetRoom(rooms', r).viewers = room.viewers \cup {c}
                      /\ Emitted(emits', "error") = {}]_vars

\* C6 for every pair of addresses but host = viewer = 'localhost'.
C6_JoinPolicyNotBothLocalhost ==
    [][\A c \in Conns, r \in RoomIds :
          (JoinStep(c, r) /\ HasRoom(rooms, r)) =>
             LET room == GetRoom(rooms, r)
                 h == clientIPs[room.host]
                 v == clientIPs[c]
             IN  (h # Localhost \/ v # Localhost) =>
                 IF /\ PrivateAddress(h)
                    /\ PrivateAddress(v)
                    /\ FirstThreeOctets(h) # FirstThreeOctets(v)
                 THEN /\ emits' = <<[event |-> "error",
                                     args |-> <<"You can only join rooms from the same local network">>,
                                     group |-> "", to |-> {c}]>>
                      /\ rooms' = rooms
                 ELSE /\ HasRoom(rooms', r)
                      /\ GetRoom(rooms', r).viewers = room.viewers \cup {c}
                      /\ Emitted(emits', "error") = {}]_vars

\* C7: when a viewer of room R that is not R's host disconnects, R stays in the
\* registry with the same host and isSharing, its viewer set loses that
\* connection and no other, and exactly one viewerLeft(connID) is emitted, which
\* R's host receives.
C7_ViewerDisconnect ==
    [][\A i \in 1..Len(rooms), c \in Conns :
          (DisconnectStep(c) /\ c \in rooms[i].viewers /\ c # rooms[i].host) =>
             /\ HasRoom(rooms', rooms[i].id)
             /\ GetRoom(rooms', rooms[i].id) = [rooms[i] EXCEPT !.viewers = @ \ {c}]
             /\ Cardinality(Emitted(emits', "viewerLeft")) = 1
             /\ \A k \in Emitted(emits', "viewerLeft") :
                   /\ emits'[k].args = <<c>>
                   /\ rooms[i].host \in emits'[k].to]_vars

\* C7 for a connection that is a viewer of one room only.
C7_ViewerOfOneRoom ==
    [][\A i \in 1..Len(rooms), c \in Conns :
          (/\ DisconnectStep(c)
           /\ c \in rooms[i].viewers
           /\ c # rooms[i].host
           /\ \A j \in 1..Len(rooms) : c \in rooms[j].viewers => j = i) =>
             /\ HasRoom(rooms', rooms[i].id)
             /\ GetRoom(rooms', rooms[i].id) = [rooms[i] EXCEPT !.viewers = @ \ {c}]
             /\ Cardinality(Emitted(emits', "viewerLeft")) = 1
             /\ \A k \in Emitted(emits', "viewerLeft") :
                   /\ emits'[k].args = <<c>>
                   /\ rooms[i].host \in emits'[k].to]_vars

\* C8: a duplicate disconnect of a connection emits nothing (no
\* hostDisconnected, no viewerLeft), deletes no room, removes no viewer and
\* leaves the registry, the address map and the groups as they were.
C8_DuplicateDisconnect ==
    [][\A c \in Conns :
          event' = [op |-> "disconnect", conn |-> c, args |-> <<"duplicate">>] =>
             /\ emits' = <<>>
             /\ rooms' = rooms
             /\ clientIPs' = clientIPs
             /\ joined' = joined
             /\ connected' = connected]_vars

\* A duplicate disconnect has been handled while rooms are live.
C8_Witness ==
    /\ event.op = "disconnect"
    /\ event.args = <<"duplicate">>
    /\ event.conn \in closed
    /\ rooms # <<>>
    /\ \E i \in 1..Len(rooms) : rooms[i].viewers # {}

\* C9: in every reachable state a connection is host or viewer in at most one
\* room of the registry.
C9_SingleRoom ==
    \A c \in Conns :
       Cardinality({i \in 1..Len(rooms) : c = rooms[i].host \/ c \in rooms[i].viewers}) <= 1

\* C10: a joinRoom(R) by a connection V other than R's host H, which the join
\* policy does not refuse, emits roomJoined(R) once, to V alone, adds V to R's
\* viewer set and changes nothing else of R: its host stays H.
C10_CreateThenJoin ==
    [][\A c \in Conns, r \in RoomIds :
          (/\ JoinStep(c, r)
           /\ HasRoom(rooms, r)
           /\ c # GetRoom(rooms, r).host
           /\ ~NetworkRestricted(clientIPs[GetRoom(rooms, r).host], clientIPs[c])) =>
             /\ HasRoom(rooms', r)
             /\ GetRoom(rooms', r) = [GetRoom(rooms, r) EXCEPT !.viewers = @ \cup {c}]
             /\ Cardinality(Emitted(emits', "roomJoined")) = 1
             /\ \A k \in Emitted(emits', "roomJoined") :
                   emits'[k].args = <<r>> /\ emits'[k].to = {c}]_vars

\* A connection other than the host has joined a room.
C10_Witness ==
    /\ event.op = "joinRoom"
    /\ Emitted(emits, "roomJoined") # {}
    /\ HasRoom(rooms, event.args[1])
    /\ event.conn # GetRoom(rooms, event.args[1]).host
    /\ event.conn \in GetRoom(rooms, event.args[1]).viewers

\* C11: a room id enters the registry only in a createRoom step for that id and
\* leaves it only in a disconnect step of the connection that is its host (no
\* other event, and no viewer's disconnect, deletes a room); and the host of
\* every room in the registry is a currently connected connection.
C11_RoomLifecycle ==
    [][/\ \A r \in RoomIds :
             (~HasRoom(rooms, r) /\ HasRoom(rooms', r)) =>
                (event'.op = "createRoom" /\ event'.args = <<r>>)
       /\ \A r \in RoomIds :
             (HasRoom(rooms, r) /\ ~HasRoom(rooms', r)) =>
                (event'.op = "disconnect" /\ event'.conn = GetRoom(rooms, r).host)
       /\ \A i \in 1..Len(rooms') :
             rooms'[i].host \in connected' /\ rooms'[i].host \notin closed']_vars

\* A host's disconnect has deleted its room while another room, with a viewer,
\* lives on.
C11_Witness ==
    /\ event.op = "disconnect"
    /\ event.conn \in closed
    /\ Emitted(emits, "hostDisconnected") # {}
    /\ \E i \in 1..Len(rooms) : rooms[i].viewers # {} /\ rooms[i].host \in connected

\* C12 as stated: while room id R stays in the registry its host never changes.
C12_HostImmutable ==
    [][\A r \in RoomIds :
          (HasRoom(rooms, r) /\ HasRoom(rooms', r)) =>
             GetRoom(rooms', r).host = GetRoom(rooms, r).host]_vars

\* C12, amended: while room id R stays in the registry its host changes only in
\* a createRoom(R) step, which replaces R's entry and makes its sender the host;
\* no other event replaces the host of a live room.
C12_HostFixedUntilRecreated ==
    [][\A r \in RoomIds :
          (/\ HasRoom(rooms, r)
           /\ HasRoom(rooms', r)
           /\ GetRoom(rooms', r).host # GetRoom(rooms, r).host) =>
             /\ event'.op = "createRoom"
             /\ event'.args = <<r>>
             /\ GetRoom(rooms', r).host = event'.conn]_vars

\* The second event of the run is a createRoom(R) by a connection other than
\* the one that created R with the first event: R has been re-created while
\* live, and its first host is still connected.
C12_Witness ==
    /\ handled = 2
    /\ closed = {}
    /\ event.op = "createRoom"
    /\ HasRoom(rooms, event.args[1])
    /\ GetRoom(rooms, event.args[1]).host = event.conn
    /\ \E c \in connected \ {event.conn} : event.args[1] \in joined[c]

\* The step relays an offer, an answer or an iceCandidate whose `to` is the
\* connected socket `to`.
RelayStep(op, to, from, p) ==
    /\ to \in connected
    /\ event' = [op |-> op, conn |-> "", args |-> <<to, from, p>>]

\* C13: an offer, answer or iceCandidate whose `to` is a connection identity is
\* delivered once, to that connection and to no other, with the payload and
\* `from` as given, and the registry is not modified.
C13_RelayConfined ==
    [][\A op \in {"offer", "answer", "iceCandidate"}, to \in Conns, from \in Conns,
          p \in Payloads :
          RelayStep(op, to, from, p) =>
             /\ Len(emits') = 1
             /\ emits'[1].event = op
             /\ emits'[1].args = <<from, p>>
             /\ emits'[1].to = {to}
             /\ rooms' = rooms]_vars

\* C13 while no socket has joined a group named by the addressee's identity.
C13_RelayNoSuchGroup ==
    [][\A op \in {"offer", "answer", "iceCandidate"}, to \in Conns, from \in Conns,
          p \in Payloads :
          (RelayStep(op, to, from, p) /\ \A c \in connected \ {to} : to \notin joined[c]) =>
             /\ Len(emits') = 1
             /\ emits'[1].event = op
             /\ emits'[1].args = <<from, p>>
             /\ emits'[1].to = {to}
             /\ rooms' = rooms]_vars

\* The step handles stopScreenShare(roomId).
StopStep(r) == event' = [op |-> "stopScreenShare", conn |-> "", args |-> <<r>>]

\* C14: stopScreenShare(R) on an existing room clears R.isSharing and emits
\* hostStoppedSharing to exactly R's host and R's viewers; on a missing room it
\* emits nothing and changes nothing.
C14_StopRecipients ==
    [][\A r \in RoomIds :
          StopStep(r) =>
             IF HasRoom(rooms, r)
             THEN /\ rooms' = [rooms EXCEPT ![RoomIndex(rooms, r)].isSharing = FALSE]
                  /\ Len(emits') = 1
                  /\ emits'[1].event = "hostStoppedSharing"
                  /\ emits'[1].to = {GetRoom(rooms, r).host} \cup GetRoom(rooms, r).viewers
             ELSE /\ emits' = <<>>
                  /\ rooms' = rooms
                  /\ joined' = joined
                  /\ clientIPs' = clientIPs]_vars

\* C14 without the exclusion of other receivers: the one hostStoppedSharing
\* reaches R's host and every viewer of R.
C14_StopReachesRoom ==
    [][\A r \in RoomIds :
          StopStep(r) =>
             IF HasRoom(rooms, r)
             THEN /\ rooms' = [rooms EXCEPT ![RoomIndex(rooms, r)].isSharing = FALSE]
                  /\ Len(emits') = 1
                  /\ emits'[1].event = "hostStoppedSharing"
                  /\ ({GetRoom(rooms, r).host} \cup GetRoom(rooms, r).viewers)
                        \subseteq emits'[1].to
             ELSE /\ emits' = <<>>
                  /\ rooms' = rooms
                  /\ joined' = joined
                  /\ clientIPs' = clientIPs]_vars

\* The step handles startScreenShare(roomId).
StartStep(r) == event' = [op |-> "startScreenShare", conn |-> "", args |-> <<r>>]

\* What C15 says of single steps: a room is created with isSharing false;
\* startScreenShare(R) on an existing room sets R.isSharing, emits nothing and
\* changes nothing else; startScreenShare and stopScreenShare on a missing room
\* emit nothing and change nothing.
SharingFlagSteps ==
    /\ \A r \in RoomIds :
          (event'.op = "createRoom" /\ event'.args = <<r>>) =>
             HasRoom(rooms', r) /\ ~GetRoom(rooms', r).isSharing
    /\ \A r \in RoomIds :
          (StartStep(r) /\ HasRoom(rooms, r)) =>
             /\ rooms' = [rooms EXCEPT ![RoomIndex(rooms, r)].isSharing = TRUE]
             /\ emits' = <<>>
             /\ joined' = joined
             /\ clientIPs' = clientIPs
             /\ connected' = connected
    /\ \A r \in RoomIds :
          ((StartStep(r) \/ StopStep(r)) /\ ~HasRoom(rooms, r)) =>
             /\ rooms' = rooms
             /\ emits' = <<>>
             /\ joined' = joined
             /\ clientIPs' = clientIPs

\* C15 as stated: the single steps above, and a set isSharing stays set across
\* every step but a stopScreenShare(R) and a disconnect of R's host.
C15_SharingFlag ==
    [][/\ SharingFlagSteps
       /\ \A r \in RoomIds :
             (/\ HasRoom(rooms, r)
              /\ GetRoom(rooms, r).isSharing
              /\ ~StopStep(r)
              /\ ~(event'.op = "disconnect" /\ event'.conn = GetRoom(rooms, r).host)) =>
                HasRoom(rooms', r) /\ GetRoom(rooms', r).isSharing]_vars

\* C15, amended: the single steps above, and a set isSharing stays set across
\* every step but a stopScreenShare(R), a disconnect of R's host and a
\* createRoom(R), which replaces R's entry by one with isSharing false.
C15_SharingFlagUntilReset ==
    [][/\ SharingFlagSteps
       /\ \A r \in RoomIds :
             (/\ HasRoom(rooms, r)
              /\ GetRoom(rooms, r).isSharing
              /\ ~StopStep(r)
              /\ ~(event'.op = "disconnect" /\ event'.conn = GetRoom(rooms, r).host)) =>
                \/ HasRoom(rooms', r) /\ GetRoom(rooms', r).isSharing
                \/ /\ event'.op = "createRoom"
                   /\ event'.args = <<r>>
                   /\ HasRoom(rooms', r)
                   /\ ~GetRoom(rooms', r).isSharing]_vars

\* startScreenShare has set the flag of one room while another room, not
\* sharing, is in the registry, and a later event left the flag set.
C15_Witness ==
    /\ event.op \in {"joinRoom", "viewerJoined", "offer"}
    /\ \E i, j \in 1..Len(rooms) : rooms[i].isSharing /\ ~rooms[j].isSharing

\* C16: createRoom(R) by connection H, whether or not R exists, leaves the
\* registry mapping R to a room with host H, no viewers and isSharing false, and
\* emits roomCreated(R) to H and nothing else, to nobody else.
C16_CreateRoom ==
    [][\A c \in Conns, r \in RoomIds :
          event' = [op |-> "createRoom", conn |-> c, args |-> <<r>>] =>
             /\ HasRoom(rooms', r)
             /\ GetRoom(rooms', r).host = c
             /\ GetRoom(rooms', r).viewers = {}
             /\ ~GetRoom(rooms', r).isSharing
             /\ emits' = <<[event |-> "roomCreated", args |-> <<r>>, group |-> "",
                            to |-> {c}]>>]_vars

\* createRoom(R) has been handled while another connection was still in R's
\* group from an earlier entry for R, and another room is sharing.
C16_Witness ==
    /\ event.op = "createRoom"
    /\ HasRoom(rooms, event.args[1])
    /\ GetRoom(rooms, event.args[1]).viewers = {}
    /\ \E c \in connected \ {event.conn} : event.args[1] \in joined[c]
    /\ \E i \in 1..Len(rooms) : rooms[i].isSharing

\* C17: in every state, a connection whose disconnect has been handled hosts no
\* room, is in no viewer set and has no entry in the address map; every host
\* and every viewer in the registry is currently connected.
C17_Reclaimed ==
    /\ \A c \in closed :
          /\ \A i \in 1..Len(rooms) : rooms[i].host # c /\ c \notin rooms[i].viewers
          /\ clientIPs[c] = Null
    /\ \A i \in 1..Len(rooms) :
          rooms[i].host \in connected /\ rooms[i].viewers \subseteq connected

\* A connection that registered an address and was a viewer has disconnected
\* (its host was told), and the room it viewed lives on.
C17_Witness ==
    /\ event.op = "disconnect"
    /\ event.conn \in closed
    /\ \E k \in Emitted(emits, "viewerLeft") : emits[k].args = <<event.conn>>
    /\ rooms # <<>>
    /\ \E c \in connected : clientIPs[c] # clientIP

\* C18: when a connection is established the address recorded for it is the
\* connecting client's own address, and after every step the address map has an
\* entry for exactly the connected connections. (joinRoom reads the policy's
\* two addresses from these entries.)
C18_OwnAddress ==
    [][/\ \A c \in Conns, ip \in IPs :
             event' = [op |-> "connection", conn |-> c, args |-> <<ip>>] =>
                clientIPs'[c] = ip
       /\ \A c \in Conns : clientIPs'[c] # Null <=> c \in connected']_vars

\* C18 without the address recorded at connection: the address map has an
\* entry for exactly the connected connections.
C18_EntriesForConnected == \A c \in Conns : clientIPs[c] # Null <=> c \in connected

\* The step handles viewerJoined({roomId}) from socket c.
ViewerJoinedStep(c, r) == event' = [op |-> "viewerJoined", conn |-> c, args |-> <<r>>]

\* C19: viewerJoined({R}) from V on an existing room emits one newViewer(V),
\* to R's host only, and leaves the registry as it was; on a missing room it
\* emits nothing and leaves the registry as it was.
C19_ViewerJoined ==
    [][\A c \in Conns, r \in RoomIds :
          ViewerJoinedStep(c, r) =>
             /\ rooms' = rooms
             /\ IF HasRoom(rooms, r)
                THEN /\ Len(emits') = 1
                     /\ emits'[1].event = "newViewer"
                     /\ emits'[1].args = <<c>>
                     /\ emits'[1].to = {GetRoom(rooms, r).host}
                ELSE emits' = <<>>]_vars

\* C19 while no other socket has joined a group named by the host's identity.
C19_ViewerJoinedNoSuchGroup ==
    [][\A c \in Conns, r \in RoomIds :
          (/\ ViewerJoinedStep(c, r)
           /\ HasRoom(rooms, r) =>
                 \A o \in connected \ {GetRoom(rooms, r).host} :
                    GetRoom(rooms, r).host \notin joined[o]) =>
             /\ rooms' = rooms
             /\ IF HasRoom(rooms, r)
                THEN /\ Len(emits') = 1
                     /\ emits'[1].event = "newViewer"
                     /\ emits'[1].args = <<c>>
                     /\ emits'[1].to = {GetRoom(rooms, r).host}
                ELSE emits' = <<>>]_vars

\* The events that name one room.
RoomScopedOps ==
    {"createRoom", "joinRoom", "viewerJoined", "startScreenShare", "stopScreenShare"}

\* The room-lifecycle notifications.
LifecycleEvents ==
    {"roomJoined", "hostIsSharing", "hostStoppedSharing", "hostDisconnected",
     "viewerLeft", "newViewer"}

\* The host and the viewers of room r in the registry rs (nobody when absent).
Participants(rs, r) ==
    IF HasRoom(rs, r) THEN {GetRoom(rs, r).host} \cup GetRoom(rs, r).viewers ELSE {}

\* C20: a room-scoped event naming R leaves every other room R' as it was and
\* emits no room-lifecycle notification to a connection that is neither the
\* sender nor a host, viewer or group member of R.
C20_RoomIsolation ==
    [][\A r \in RoomIds :
          (event'.op \in RoomScopedOps /\ event'.args = <<r>>) =>
             /\ \A q \in RoomIds \ {r} :
                   /\ HasRoom(rooms', q) <=> HasRoom(rooms, q)
                   /\ HasRoom(rooms, q) => GetRoom(rooms', q) = GetRoom(rooms, q)
             /\ \A k \in 1..Len(emits') :
                   emits'[k].event \in LifecycleEvents =>
                      emits'[k].to \subseteq
                         {event'.conn} \cup Participants(rooms, r) \cup Participants(rooms', r)
                         \cup Members(connected', joined', r)]_vars

\* C20 while no socket has joined a group named by another socket's identity.
C20_RoomIsolationNoSuchGroup ==
    [][\A r \in RoomIds :
          (/\ event'.op \in RoomScopedOps
           /\ event'.args = <<r>>
           /\ \A c \in connected : joined[c] \cap Conns \subseteq {c}) =>
             /\ \A q \in RoomIds \ {r} :
                   /\ HasRoom(rooms', q) <=> HasRoom(rooms, q)
                   /\ HasRoom(rooms, q) => GetRoom(rooms', q) = GetRoom(rooms, q)
             /\ \A k \in 1..Len(emits') :
                   emits'[k].event \in LifecycleEvents =>
                      emits'[k].to \subseteq
                         {event'.conn} \cup Participants(rooms, r) \cup Participants(rooms', r)
                         \cup Members(connected', joined', r)]_vars

\* A room of the address-aware router as the plain router keeps it: without
\* the host's address.
AsPlain(room) ==
    [id |-> room.id, host |-> room.host, viewers |-> room.viewers,
     isSharing |-> room.isSharing]

\* The events emitted, each with the connections that receive it.
Deliveries(es) ==
    [k \in 1..Len(es) |-> [event |-> es[k].event, args |-> es[k].args, to |-> es[k].to]]

\* C21: over every sequence of events in which the join policy refuses no join,
\* after each event the two routers' registries hold the same rooms with the
\* same host, viewer set and isSharing, and the two routers have emitted the
\* same events to the same connections.
C21_Lockstep ==
    /\ {AsPlain(rooms[i]) : i \in 1..Len(rooms)}
          = {plainRooms[i] : i \in 1..Len(plainRooms)}
    /\ Len(rooms) = Len(plainRooms)
    /\ Deliveries(emits) = Deliveries(plainEmits)

\* Both routers have accepted a join between two sockets with different
\* registered addresses into a sharing room and sent hostIsSharing.
C21_Witness ==
    /\ event.op = "joinRoom"
    /\ Emitted(emits, "hostIsSharing") # {}
    /\ Emitted(plainEmits, "hostIsSharing") # {}
    /\ HasRoom(plainRooms, event.args[1])
    /\ event.conn \in GetRoom(plainRooms, event.args[1]).viewers
    /\ event.conn # GetRoom(rooms, event.args[1]).host
    /\ clientIPs[event.conn] # clientIPs[GetRoom(rooms, event.args[1]).host]
    /\ clientIPs[event.conn] # clientIP


====
